---- MODULE Spec2Model ----
(***************************************************************************)
(* Control logic of the globe LED lamp.                                    *)
(*                                                                         *)
(*   src/main.py   the supervisor: owns one worker subprocess per mode,    *)
(*                 evaluates the day/night schedule on a 60 s tick and     *)
(*                 posts the scheduled colour to the worker with retries.  *)
(*   src/common.py the supervisor's Mode enumeration.                      *)
(*   src/globe.py  the worker: mode state machine, animation loops,        *)
(*                 colour codec.                                           *)
(*                                                                         *)
(* Both processes run one asyncio event loop: a coroutine runs atomically  *)
(* from one await that really suspends to the next, so every action below  *)
(* is one such stretch of code.                                            *)
(***************************************************************************)
EXTENDS Integers, Sequences, FiniteSets, TLC

VARIABLES
    \* ---- supervisor, src/main.py ----
    now,        \* HM(t.hour, t.minute) of datetime.now() + offset
    mode,       \* global mode (None until the first start)
    proc,       \* global proc: the subprocess handle held (NoProc = None), the
                \* mode it was launched with and whether that process is alive
    leaked,     \* live worker processes whose handle the supervisor dropped
    pending,    \* start(m) calls of button/boot tasks suspended in the spawn await
    loopPc,     \* where the loop() task is
    i,          \* set_color's loop index
    attempts,   \* session.post calls issued by the current set_color call
    delivered,  \* the current set_color call left its loop through break
    sending,    \* the argument c of the current set_color call
    ev,         \* the operation that made the last step
    \* ---- schedule functions evaluated on their own ----
    schedNow,       \* the time of day evaluated
    schedPc,        \* "ready" before the evaluation, "done" after
    schedManaged,   \* what is_managed() returned
    schedColor,     \* the colour loop() picked
    \* ---- worker, src/globe.py (class Globe) ----
    on,         \* self.on
    wmode,      \* self.mode
    color,      \* self.color
    target,     \* self.target
    wtime,      \* self.time: the override, or the clock
    walkTasks,  \* _walk_loop tasks scheduled or sleeping
    danceTasks, \* _dance_loop tasks scheduled or sleeping
    emit,       \* the last step that changed a field awaited self.show()
    bumps,      \* channel-button presses that took effect, and POST requests
    steps,      \* _walk_loop ticks that ran in WALK mode
    gev,        \* the last operation that changed a field, and the value it replaced
    lists,      \* which of self.color, self.target hold a list and not a tuple
    clockLoop,  \* the _clock_loop task is alive
    \* ---- worker functions evaluated on their own ----
    fnArg,      \* the arguments of the call
    fnPc,       \* "ready" before the call, "done" after it returned
    fnRet       \* what the call returned

supVars == <<now, mode, proc, leaked, pending, loopPc, i, attempts,
             delivered, sending, ev>>
schedVars == <<schedNow, schedPc, schedManaged, schedColor>>
globeVars == <<on, wmode, color, target, wtime, walkTasks, danceTasks, emit,
               bumps, steps, gev, lists, clockLoop>>
fnVars == <<fnArg, fnPc, fnRet>>
vars == <<supVars, schedVars, globeVars, fnVars>>

None == "None"

(***************************************************************************)
(* Bounds of the model.                                                    *)
(***************************************************************************)
\* button tasks that may be suspended in start()'s spawn await at once
MaxPending == 1
\* the mode button is not pressed again once more workers than this leaked
MaxLeaked == 1
\* animation-loop tasks of one kind alive at once
MaxTasks == 2
\* channel-button presses that take effect, and POST requests, in one run
MaxBumps == 1
\* _walk_loop ticks that run in WALK mode in one run
MaxSteps == 2

(***************************************************************************)
(* Times of day: HM namedtuples, compared as tuples.                       *)
(***************************************************************************)
HM(h, m) == [h |-> h, m |-> m]

AllHM == {HM(h, m) : h \in 0..23, m \in 0..59}

HMLess(a, b) == a.h < b.h \/ (a.h = b.h /\ a.m < b.m)

HMMax(S) == CHOOSE x \in S : \A y \in S : ~HMLess(x, y)

HMMin(S) == CHOOSE x \in S : \A y \in S : ~HMLess(y, x)

\* managed_colors, in the dict's insertion (= iteration) order
managed_colors ==
    << [hm |-> HM(7, 0),   c |-> "00201000"],
       [hm |-> HM(19, 0),  c |-> "20200020"],
       [hm |-> HM(19, 30), c |-> "20100000"] >>

Breakpoints == {managed_colors[k].hm : k \in 1..Len(managed_colors)}

\* a half-open window [dawn, dusk) in place of the open one
is_managed_half_open(t) ==
    LET dawn == HMMax({hm \in Breakpoints : hm.h < 12})
        dusk == HMMin({hm \in Breakpoints : hm.h > 12})
    IN  ~(~HMLess(t, dawn) /\ HMLess(t, dusk))

\* is_managed(), as a function of the HM it builds from the clock
is_managed(t) ==
    LET dawn == HMMax({hm \in Breakpoints : hm.h < 12})
        dusk == HMMin({hm \in Breakpoints : hm.h > 12})
    IN  ~(HMLess(dawn, t) /\ HMLess(t, dusk))

\* the for loop of loop() over managed_colors.items(): (color, delay) after
\* the first k items; while inf holds, delay is still the initial 1e100
RECURSIVE ColorScan(_, _)
ColorScan(t, k) ==
    IF k = 0 THEN [color |-> None, delay |-> 0, inf |-> TRUE]
    ELSE LET prev == ColorScan(t, k - 1)
             hm   == managed_colors[k].hm
             d    == 60 * (t.h - hm.h) + (t.m - hm.m)
         IN  IF 0 <= d /\ (prev.inf \/ d < prev.delay)
             THEN [color |-> managed_colors[k].c, delay |-> d, inf |-> FALSE]
             ELSE prev

managed_color(t) == ColorScan(t, Len(managed_colors)).color

(***************************************************************************)
(* The supervisor's Mode enumeration (src/common.py).                      *)
(***************************************************************************)
SupModes == {"MANAGED", "RGBW", "LAVA", "FIREWORKS"}

SupValue(m) ==
    CASE m = "MANAGED"   -> 0
      [] m = "RGBW"      -> 1
      [] m = "LAVA"      -> 2
      [] m = "FIREWORKS" -> 3

\* Mode(v): the member with that value
SupMode(v) == CHOOSE m \in SupModes : SupValue(m) = v

\* the successor without "or 1"
next_mode_plain(m) == SupMode((SupValue(m) + 1) % Cardinality(SupModes))

\* on_mode_pressed's argument to start(): Mode(next_mode or 1)

next_mode(m) ==
    LET n == (SupValue(m) + 1) % Cardinality(SupModes)
    IN  SupMode(IF n = 0 THEN 1 ELSE n)

(***************************************************************************)
(* Worker subprocesses as the supervisor sees them.                        *)
(***************************************************************************)
NoProc == [m |-> None, alive |-> FALSE]

\* what create_subprocess_exec(sys.executable, 'globe.py', str(m.value)) returns
Spawned(m) == [m |-> m, alive |-> TRUE]

\* "if proc: proc.terminate()"
Terminated(p) == IF p # NoProc THEN [p EXCEPT !.alive = FALSE] ELSE p

\* "proc = await ...": the handle held so far is dropped, alive or not
Dropped(p) == IF p.alive THEN 1 ELSE 0

\* worker processes that were spawned and have not been terminated
Running == leaked + Dropped(proc)

PendingCount == pending["MANAGED"] + pending["RGBW"] + pending["LAVA"]
                    + pending["FIREWORKS"]

\* one attempt more than range(10)
RetryLimitPlusOne == 10 + 1

\* range(10) of set_color
RetryLimit == 10

\* the clock readings the supervisor is run through: a managed minute before
\* the first breakpoint of the day, an unmanaged one, a managed evening one
SampleTimes == {HM(3, 0), HM(8, 0), HM(19, 10)}

(***************************************************************************)
(* Supervisor operations.                                                  *)
(***************************************************************************)
SchedIdle == UNCHANGED <<schedVars, globeVars, fnVars>>

\* start(m) without "global mode": the assignment stays local
StartCalledLocalMode(m) ==
    /\ mode' = mode
    /\ proc' = Terminated(proc)

\* "mode = m; if proc: proc.terminate()": start(m) up to its await
StartCalled(m) ==
    /\ mode' = m
    /\ proc' = Terminated(proc)

\* "proc = await asyncio.create_subprocess_exec(*cmd)" resumes
StartResumed(m) ==
    /\ proc' = Spawned(m)
    /\ leaked' = leaked + Dropped(proc)

\* "await set_color(color)" up to the first session.post
CallSetColor(c) ==
    /\ sending' = c
    /\ i' = 0
    /\ attempts' = 1
    /\ delivered' = FALSE
    /\ loopPc' = "post"

\* set_color raising out of loop() instead of returning
ReturnSetColorRaises ==
    /\ sending' = None
    /\ i' = 0
    /\ loopPc' = "dead"

\* set_color returns: its locals are gone, loop() sleeps 60 s
ReturnSetColor ==
    /\ sending' = None
    /\ i' = 0
    /\ loopPc' = "sleep"

\* module body: the first start(RGBW) and the first loop() are scheduled and
\* run in that order as soon as the event loop starts
Boot ==
    /\ loopPc = "boot"
    /\ IF ~is_managed(now)
       THEN /\ StartCalled("RGBW")
            /\ pending' = [pending EXCEPT !["RGBW"] = @ + 1]
       ELSE UNCHANGED <<mode, proc, pending>>
    /\ loopPc' = "tick"
    /\ ev' = "boot"
    /\ UNCHANGED <<now, leaked, i, attempts, delivered, sending>>
    /\ SchedIdle

\* loop() from its start to its first suspension
LoopTick ==
    /\ loopPc = "tick"
    /\ ev' = "tick"
    /\ \/ /\ is_managed(now)
          /\ mode # "MANAGED"
          /\ StartCalled("MANAGED")
          /\ loopPc' = "spawn"
          /\ UNCHANGED <<i, attempts, delivered, sending>>
       \/ /\ is_managed(now)
          /\ mode = "MANAGED"
          /\ CallSetColor(managed_color(now))
          /\ UNCHANGED <<mode, proc>>
       \/ /\ ~is_managed(now)
          /\ loopPc' = "sleep"
          /\ UNCHANGED <<mode, proc, i, attempts, delivered, sending>>
    /\ UNCHANGED <<now, leaked, pending>>
    /\ SchedIdle

\* loop() resumes from start(MANAGED)'s create_subprocess_exec
LoopSpawned ==
    /\ loopPc = "spawn"
    /\ StartResumed("MANAGED")
    /\ CallSetColor(managed_color(now))
    /\ ev' = "loop_spawned"
    /\ UNCHANGED <<now, mode, pending>>
    /\ SchedIdle

\* create_subprocess_exec raises in the loop() task: nothing catches it
LoopSpawnFails ==
    /\ loopPc = "spawn"
    /\ loopPc' = "dead"
    /\ ev' = "loop_spawn_failed"
    /\ UNCHANGED <<now, mode, proc, leaked, pending, i, attempts, delivered,
                   sending>>
    /\ SchedIdle

\* session.post returns: break, set_color returns
PostSucceeds ==
    /\ loopPc = "post"
    /\ delivered' = TRUE
    /\ ReturnSetColor
    /\ ev' = "post_ok"
    /\ UNCHANGED <<now, mode, proc, leaked, pending, attempts>>
    /\ SchedIdle

\* session.post raises: the bare except sleeps 3 s
PostFails ==
    /\ loopPc = "post"
    /\ loopPc' = "backoff"
    /\ ev' = "post_failed"
    /\ UNCHANGED <<now, mode, proc, leaked, pending, i, attempts, delivered,
                   sending>>
    /\ SchedIdle

\* the 3 s sleep ends: next index of range(10), or the for loop is exhausted
BackoffDone ==
    /\ loopPc = "backoff"
    /\ IF i + 1 < RetryLimit
       THEN /\ i' = i + 1
            /\ attempts' = attempts + 1
            /\ loopPc' = "post"
            /\ UNCHANGED sending
       ELSE /\ ReturnSetColor
            /\ UNCHANGED attempts
    /\ ev' = "backoff_done"
    /\ UNCHANGED <<now, mode, proc, leaked, pending, delivered>>
    /\ SchedIdle

\* the 60 s sleep ends and loop() is scheduled again
LoopWake ==
    /\ loopPc = "sleep"
    /\ loopPc' = "tick"
    /\ attempts' = 0
    /\ delivered' = FALSE
    /\ ev' = "wake"
    /\ UNCHANGED <<now, mode, proc, leaked, pending, i, sending>>
    /\ SchedIdle

\* on_mode_pressed up to start()'s spawn await
ModePressed ==
    /\ loopPc # "boot"
    /\ ev' = "mode_pressed"
    /\ \/ /\ is_managed(now)
          /\ UNCHANGED <<mode, proc, pending>>
       \/ /\ ~is_managed(now)
          /\ mode = None              \* mode.value raises AttributeError
          /\ UNCHANGED <<mode, proc, pending>>
       \/ /\ ~is_managed(now)
          /\ mode # None
          /\ PendingCount < MaxPending
          /\ leaked <= MaxLeaked
          /\ StartCalled(next_mode(mode))
          /\ pending' = [pending EXCEPT ![mode'] = @ + 1]
    /\ UNCHANGED <<now, leaked, loopPc, i, attempts, delivered, sending>>
    /\ SchedIdle

\* a button or boot task resumes from start(m)'s create_subprocess_exec
TaskSpawned(m) ==
    /\ pending[m] > 0
    /\ pending' = [pending EXCEPT ![m] = @ - 1]
    /\ StartResumed(m)
    /\ ev' = "task_spawned"
    /\ UNCHANGED <<now, mode, loopPc, i, attempts, delivered, sending>>
    /\ SchedIdle

\* create_subprocess_exec raises in a button or boot task
TaskSpawnFails(m) ==
    /\ pending[m] > 0
    /\ pending' = [pending EXCEPT ![m] = @ - 1]
    /\ ev' = "task_spawn_failed"
    /\ UNCHANGED <<now, mode, proc, leaked, loopPc, i, attempts, delivered,
                   sending>>
    /\ SchedIdle

\* the clock, or the offset set through POST /state, moves the time read
TimePasses ==
    /\ \E t \in SampleTimes \ {now} : now' = t
    /\ ev' = "time"
    /\ UNCHANGED <<mode, proc, leaked, pending, loopPc, i, attempts,
                   delivered, sending>>
    /\ SchedIdle

\* is_managed() and the colour loop() picks, evaluated at one time of day
EvalSchedule ==
    /\ schedPc = "ready"
    /\ schedPc' = "done"
    /\ schedManaged' = is_managed(schedNow)
    /\ schedColor' = managed_color(schedNow)
    /\ UNCHANGED <<schedNow, supVars, globeVars, fnVars>>

SchedIdleInit ==
    /\ schedNow = HM(0, 0)
    /\ schedPc = "ready"
    /\ schedManaged = FALSE
    /\ schedColor = None

SupInit ==
    /\ now \in SampleTimes
    /\ mode = None
    /\ proc = NoProc
    /\ leaked = 0
    /\ pending = [m \in SupModes |-> 0]
    /\ loopPc = "boot"
    /\ i = 0
    /\ attempts = 0
    /\ delivered = FALSE
    /\ sending = None
    /\ ev = "init"

(***************************************************************************)
(* The worker (src/globe.py).                                              *)
(***************************************************************************)
GlobeModes == {"RGBW", "WALK", "DANCE", "NIGHTLIGHT"}

GlobeValue(m) ==
    CASE m = "RGBW"       -> 0
      [] m = "WALK"       -> 1
      [] m = "DANCE"      -> 2
      [] m = "NIGHTLIGHT" -> 3

\* Mode(v): the member with that value
GlobeMode(v) == CHOOSE m \in GlobeModes : GlobeValue(m) = v

\* the successor over one member too few
advance_mode_short(m) == GlobeMode((GlobeValue(m) + 1) % (Cardinality(GlobeModes) - 1))

\* Mode((self.mode.value + 1) % len(Mode))
advance_mode(m) == GlobeMode((GlobeValue(m) + 1) % Cardinality(GlobeModes))

\* the test without its negation
is_night_negated(t) == 7 <= t.h /\ t.h <= 18

\* Globe.is_night
is_night(t) == ~(7 <= t.h /\ t.h <= 18)

\* Globe.nightlight_color at self.time = t with self.color = current
nightlight_color(t, current) ==
    LET is_dusk == t.h = 19 /\ t.m <= 30
        is_dawn == t.h = 6 /\ t.m >= 55
    IN  IF is_dusk THEN <<60, 40, 20, 0>>
        ELSE IF is_night(t) THEN <<40, 20, 0, 0>>
        ELSE IF is_dawn THEN <<20, 60, 40, 0>>
        ELSE current

\* rounding up without the final % 256
increment_unwrapped(value) == value - (value % 16) + 16

\* increment_color's new channel value
increment(value) == (value - (value % 16) + 16) % 256

\* a random channel drawn from one value too many
RandomRGBOutOfRange == { <<256, 0, 2, 0>>, <<0, 1, 0, 0>> }

\* some of the tuples random_rgb() returns
RandomRGB == { <<1, 0, 2, 0>>, <<0, 1, 0, 0>> }

\* the times of day the worker is run through
WorkerTimes == {HM(12, 0), HM(23, 0)}

\* a walk that takes two steps at a time
WalkChannelStride(cchan, tchan) ==
    IF cchan < tchan THEN cchan + 2
    ELSE IF cchan > tchan THEN cchan - 2
    ELSE cchan

\* the body of _walk_loop's for loop, for one channel
WalkChannel(cchan, tchan) ==
    IF cchan < tchan THEN cchan + 1
    ELSE IF cchan > tchan THEN cchan - 1
    ELSE cchan

\* self.target = None
NoTarget == <<>>

\* self.color = None
NoColor == <<>>

\* Strings are sequences of one-character strings.
HexDigits == <<"0", "1", "2", "3", "4", "5", "6", "7", "8", "9",
               "a", "b", "c", "d", "e", "f">>

IsHexDigit(c) == \E k \in 1..16 : HexDigits[k] = c

HexDigitValue(c) == (CHOOSE k \in 1..16 : HexDigits[k] = c) - 1

\* int(c, 16) for a string c of one or two characters: the digits, an optional
\* sign before them, blanks around them; anything else raises ValueError
ParseInt16(c) ==
    IF Len(c) = 1 /\ IsHexDigit(c[1])
    THEN [raises |-> FALSE, value |-> HexDigitValue(c[1])]
    ELSE IF Len(c) = 2 /\ IsHexDigit(c[1]) /\ IsHexDigit(c[2])
    THEN [raises |-> FALSE,
          value |-> 16 * HexDigitValue(c[1]) + HexDigitValue(c[2])]
    ELSE IF Len(c) = 2 /\ c[1] \in {"+", " "} /\ IsHexDigit(c[2])
    THEN [raises |-> FALSE, value |-> HexDigitValue(c[2])]
    ELSE IF Len(c) = 2 /\ c[1] = "-" /\ IsHexDigit(c[2])
    THEN [raises |-> FALSE, value |-> 0 - HexDigitValue(c[2])]
    ELSE IF Len(c) = 2 /\ IsHexDigit(c[1]) /\ c[2] = " "
    THEN [raises |-> FALSE, value |-> HexDigitValue(c[1])]
    ELSE [raises |-> TRUE, value |-> 0]

\* list(int(c, 16) for c in parts)
ParseAll(parts) ==
    IF \E k \in 1..Len(parts) : ParseInt16(parts[k]).raises
    THEN [raises |-> TRUE, value |-> NoColor]
    ELSE [raises |-> FALSE,
          value |-> [k \in 1..Len(parts) |-> ParseInt16(parts[k]).value]]

\* hex_to_rgbw(x): the list it returns, None (NoColor), or the ValueError
hex_to_rgbw(x) ==
    LET x1 == IF Len(x) > 0 /\ x[1] = "#" THEN Tail(x) ELSE x
        x2 == IF Len(x1) = 3 THEN x1 \o <<"0">> ELSE x1
        x3 == IF Len(x2) = 6 THEN x2 \o <<"0", "0">> ELSE x2
    IN  IF Len(x2) = 4
        THEN ParseAll([k \in 1..4 |-> <<x2[k]>>])
        ELSE IF Len(x3) = 8
        THEN ParseAll([k \in 1..4 |-> <<x3[2 * k - 1], x3[2 * k]>>])
        ELSE [raises |-> FALSE, value |-> NoColor]

Event(op, idx, old) == [op |-> op, idx |-> idx, old |-> old]

\* ensure_mode() with self.mode = m: the loop tasks after it
\* (in RGBW mode it schedules show(), which renders and changes no field)
EnsureMode(m) ==
    /\ walkTasks' = IF m = "WALK" THEN walkTasks + 1 ELSE walkTasks
    /\ danceTasks' = IF m = "DANCE" THEN danceTasks + 1 ELSE danceTasks

\* ensure_mode() may schedule its loop task
CanEnsure(m) ==
    /\ m = "WALK" => walkTasks < MaxTasks
    /\ m = "DANCE" => danceTasks < MaxTasks

GlobeIdle == UNCHANGED <<supVars, schedVars, fnVars>>

\* show() raises TypeError whenever self.color is None: rgbw_to_int(None)
\* in the lit modes, print(self) formatting hexcolor in the others
ShowRaises(c) == c = NoColor

\* self.color == self.target: a list never equals a tuple
ColorIsTarget ==
    /\ color = target
    /\ ("color" \in lists) <=> ("target" \in lists)

\* a power button that also goes back to the first mode
PowerPressedResetsMode ==
    /\ on' = ~on
    /\ wmode' = "RGBW"
    /\ emit' = ~on'
    /\ gev' = Event("power", 0, IF on THEN 1 ELSE 0)
    /\ UNCHANGED <<color, target, wtime, walkTasks, danceTasks, bumps, steps,
                   lists, clockLoop>>
    /\ GlobeIdle

\* _on_power_pressed
PowerPressed ==
    /\ on' = ~on
    /\ IF on'
       THEN /\ CanEnsure(wmode)
            /\ EnsureMode(wmode)
            /\ emit' = FALSE
       ELSE /\ emit' = TRUE
            /\ UNCHANGED <<walkTasks, danceTasks>>
    /\ gev' = Event("power", 0, IF on THEN 1 ELSE 0)
    /\ UNCHANGED <<wmode, color, target, wtime, bumps, steps, lists,
                   clockLoop>>
    /\ GlobeIdle

\* _on_mode_pressed
GlobeModePressed ==
    /\ IF on /\ ~is_night(wtime)
       THEN /\ wmode' = advance_mode(wmode)
            /\ target' = NoTarget
            /\ lists' = lists \ {"target"}
            /\ CanEnsure(wmode')
            /\ EnsureMode(wmode')
            /\ emit' = FALSE
            /\ gev' = Event("mode", 0, GlobeValue(wmode))
       ELSE UNCHANGED <<wmode, target, lists, walkTasks, danceTasks, emit,
                        gev>>
    /\ UNCHANGED <<on, color, wtime, bumps, steps, clockLoop>>
    /\ GlobeIdle

\* increment_color, the handler _on_color_pressed(idx) returns
\* (list(self.color) raises TypeError while self.color is None)
ColorPressed(idx) ==
    /\ IF on /\ wmode = "RGBW" /\ color # NoColor
       THEN /\ bumps < MaxBumps
            /\ color' = [color EXCEPT ![idx + 1] = increment(color[idx + 1])]
            /\ lists' = lists \ {"color"}
            /\ bumps' = bumps + 1
            /\ EnsureMode(wmode)
            /\ emit' = FALSE
            /\ gev' = Event("color", idx, color[idx + 1])
       ELSE UNCHANGED <<color, lists, bumps, walkTasks, danceTasks, emit,
                        gev>>
    /\ UNCHANGED <<on, wmode, target, wtime, steps, clockLoop>>
    /\ GlobeIdle

\* _clock_loop, once a minute; when show() raises the task ends before it
\* schedules its next run
ClockTick ==
    /\ clockLoop
    /\ IF is_night(wtime)
       THEN /\ wmode' = "NIGHTLIGHT"
            /\ emit' = TRUE
            /\ gev' = Event("clock", 0, GlobeValue(wmode))
            /\ clockLoop' = ~ShowRaises(color)
       ELSE UNCHANGED <<wmode, emit, gev, clockLoop>>
    /\ UNCHANGED <<on, color, target, wtime, walkTasks, danceTasks, bumps,
                   steps, lists>>
    /\ GlobeIdle

\* a walk loop that does not look at power and mode
WalkTickUnguarded ==
    /\ walkTasks > 0
    /\ color # NoColor
    /\ target # NoTarget
    /\ steps < MaxSteps
    /\ steps' = steps + 1
    /\ color' = [j \in 1..4 |-> WalkChannel(color[j], target[j])]
    /\ lists' = lists \ {"color"}
    /\ emit' = TRUE
    /\ gev' = Event("walk", 0, 0)
    /\ UNCHANGED <<on, wmode, target, wtime, walkTasks, danceTasks, bumps,
                   clockLoop>>
    /\ GlobeIdle

\* one _walk_loop task runs
WalkTick ==
    /\ walkTasks > 0
    /\ IF on /\ wmode = "WALK"
       THEN /\ \E r \in RandomRGB :
                 IF target = NoTarget \/ ColorIsTarget
                 THEN /\ target' = r
                      /\ lists' = IF color = NoColor
                                  THEN lists \ {"target"}
                                  ELSE lists \ {"target", "color"}
                 ELSE /\ target' = target
                      /\ lists' = IF color = NoColor
                                  THEN lists
                                  ELSE lists \ {"color"}
            /\ IF color = NoColor
               THEN \* list(self.color) raises TypeError: the task ends
                    /\ walkTasks' = walkTasks - 1
                    /\ emit' = FALSE
                    /\ gev' = Event("walk_raised", 0, 0)
                    /\ UNCHANGED <<color, steps>>
               ELSE /\ steps < MaxSteps
                    /\ steps' = steps + 1
                    /\ color' = [j \in 1..4 |->
                                    WalkChannel(color[j], target'[j])]
                    /\ emit' = TRUE
                    /\ gev' = Event("walk", 0, 0)
                    /\ UNCHANGED walkTasks
       ELSE /\ walkTasks' = walkTasks - 1
            /\ emit' = FALSE
            /\ gev' = Event("walk_end", 0, 0)
            /\ UNCHANGED <<color, target, steps, lists>>
    /\ UNCHANGED <<on, wmode, wtime, danceTasks, bumps, clockLoop>>
    /\ GlobeIdle

\* one _dance_loop task runs
DanceTick ==
    /\ danceTasks > 0
    /\ IF on /\ wmode = "DANCE"
       THEN /\ \E r \in RandomRGB : color' = r
            /\ lists' = lists \ {"color"}
            /\ emit' = TRUE
            /\ gev' = Event("dance", 0, 0)
            /\ UNCHANGED danceTasks
       ELSE /\ danceTasks' = danceTasks - 1
            /\ emit' = FALSE
            /\ gev' = Event("dance_end", 0, 0)
            /\ UNCHANGED <<color, lists>>
    /\ UNCHANGED <<on, wmode, target, wtime, walkTasks, bumps, steps,
                   clockLoop>>
    /\ GlobeIdle

\* the clock moves self.time
GlobeTimePasses ==
    /\ \E t \in WorkerTimes \ {wtime} : wtime' = t
    /\ UNCHANGED <<on, wmode, color, target, walkTasks, danceTasks, emit,
                   bumps, steps, gev, lists, clockLoop>>
    /\ GlobeIdle

\* a form field of a POST request: absent, or a string
Absent == [given |-> FALSE, s |-> <<>>]

Given(x) == [given |-> TRUE, s |-> x]

\* strings a request may carry as "color" or "target": well-formed, of a
\* length hex_to_rgbw does not know, and with a character that is no digit
GoodHex == <<"#", "0", "0", "0", "1", "0", "0", "0", "0">>

BadLength == <<"1", "2">>

NotHex == <<"1", "g", "2">>

Request(time, c, t) == [time |-> time, color |-> c, target |-> t]

\* some of the requests the worker may receive; the "time" field is absent,
\* the empty string, or a time stamp
PostRequests ==
    { Request("absent", Given(GoodHex), Absent),
      Request("absent", Given(BadLength), Absent),
      Request("absent", Given(NotHex), Absent),
      Request("absent", Absent, Given(GoodHex)),
      Request("absent", Given(GoodHex), Given(GoodHex)),
      Request("absent", Given(GoodHex), Given(NotHex)),
      Request("stamp", Given(GoodHex), Absent),
      Request("empty", Absent, Given(BadLength)) }

\* two more well-formed strings: channels at the top of the range, and the
\* short form
BrightHex == <<"f", "f", "0", "0", "f", "e", "0", "0">>

ShortHex == <<"f", "0", "1">>

\* a colour string of 3, 4, 6 or 8 hex digits, after an optional leading #
WellFormed(x) ==
    LET y == IF Len(x) > 0 /\ x[1] = "#" THEN Tail(x) ELSE x
    IN  /\ Len(y) \in {3, 4, 6, 8}
        /\ \A k \in 1..Len(y) : IsHexDigit(y[k])

\* requests whose colour and target, where given, are well-formed
WellFormedRequests ==
    { req \in PostRequests :
          /\ req.color.given => WellFormed(req.color.s)
          /\ req.target.given => WellFormed(req.target.s) }
    \cup { Request("absent", Given(BrightHex), Absent),
           Request("absent", Absent, Given(ShortHex)) }

\* hex_to_rgbw of each field that may arrive
Decoded ==
    [f \in {Absent, Given(GoodHex), Given(BadLength), Given(NotHex),
            Given(BrightHex), Given(ShortHex)} |->
        hex_to_rgbw(f.s)]

\* the fields after post() handled a request, and whether it raised on the way
\*   time stamp: re is not imported in globe.py, re.split raises NameError
\*   time '':    the override is cleared, self.time is the clock's again
\*   color:      globe.color = hex_to_rgbw(color), a list or None
\*   target:     globe.target = hex_to_rgbw(target), a list or None
\* (the two "globe.mode == Mode..." lines are comparisons and change nothing)
PostResult(req, clock) ==
    LET cr == Decoded[req.color]
        tr == Decoded[req.target]
        s0 == [raised |-> FALSE, wtime |-> wtime, color |-> color,
               target |-> target, lists |-> lists]
        s1 == IF req.time = "stamp" THEN [s0 EXCEPT !.raised = TRUE]
              ELSE IF req.time = "empty" THEN [s0 EXCEPT !.wtime = clock]
              ELSE s0
        s2 == IF s1.raised \/ ~req.color.given THEN s1
              ELSE IF cr.raises THEN [s1 EXCEPT !.raised = TRUE]
              ELSE [s1 EXCEPT !.color = cr.value,
                              !.lists = IF cr.value = NoColor
                                        THEN @ \ {"color"}
                                        ELSE @ \cup {"color"}]
        s3 == IF s2.raised \/ ~req.target.given THEN s2
              ELSE IF tr.raises THEN [s2 EXCEPT !.raised = TRUE]
              ELSE [s2 EXCEPT !.target = tr.value,
                              !.lists = IF tr.value = NoTarget
                                        THEN @ \ {"target"}
                                        ELSE @ \cup {"target"}]
    IN  s3

\* post(req); the ensure_mode() task it schedules runs before any other
\* handler does
Post(req) ==
    /\ bumps < MaxBumps
    /\ bumps' = bumps + 1
    /\ \E clock \in IF req.time = "empty" THEN WorkerTimes ELSE {wtime} :
         LET res == PostResult(req, clock)
         IN  /\ wtime' = res.wtime
             /\ color' = res.color
             /\ target' = res.target
             /\ lists' = res.lists
             /\ IF res.raised
                THEN UNCHANGED <<walkTasks, danceTasks>>
                ELSE CanEnsure(wmode) /\ EnsureMode(wmode)
    /\ IF <<wtime', color', target', lists', walkTasks', danceTasks'>>
            = <<wtime, color, target, lists, walkTasks, danceTasks>>
       THEN UNCHANGED <<emit, gev>>
       ELSE emit' = FALSE /\ gev' = Event("post", 0, 0)
    /\ UNCHANGED <<on, wmode, steps, clockLoop>>
    /\ GlobeIdle

\* Globe.__init__
GlobeInit ==
    /\ on = TRUE
    /\ wmode = "RGBW"
    /\ color = <<0, 0, 0, 255>>
    /\ target = NoTarget
    /\ wtime \in WorkerTimes
    /\ walkTasks = 0
    /\ danceTasks = 0
    /\ emit = FALSE
    /\ bumps = 0
    /\ steps = 0
    /\ gev = Event("init", 0, 0)
    /\ lists = {}
    /\ clockLoop = TRUE

\* the worker's fields while the supervisor or the schedule is examined
GlobeIdleInit == GlobeInit /\ wtime = HM(12, 0)

\* no worker function is under evaluation
FnIdleInit ==
    /\ fnArg = None
    /\ fnPc = "idle"
    /\ fnRet = None

(***************************************************************************)
(* The supervisor.                                                         *)
(***************************************************************************)
Init == SupInit /\ SchedIdleInit /\ GlobeIdleInit /\ FnIdleInit

\* the steps of the loop() task
LoopStep ==
    \/ LoopTick
    \/ LoopSpawned
    \/ LoopSpawnFails
    \/ PostSucceeds
    \/ PostFails
    \/ BackoffDone
    \/ LoopWake

Next ==
    \/ Boot
    \/ LoopTick
    \/ LoopSpawned
    \/ LoopSpawnFails
    \/ PostSucceeds
    \/ PostFails
    \/ BackoffDone
    \/ LoopWake
    \/ ModePressed
    \/ \E m \in SupModes \ {"MANAGED"} : TaskSpawned(m)
    \/ \E m \in SupModes \ {"MANAGED"} : TaskSpawnFails(m)
    \/ TimePasses

Spec == Init /\ [][Next]_vars

\* The event loop runs every task that is ready, every sleep ends, and every
\* awaited post or spawn returns or raises: the loop() task, while it lives,
\* always takes its next step.
FairSpec == Init /\ [][Next]_vars /\ WF_vars(Boot) /\ WF_vars(LoopStep)

(***************************************************************************)
(* The schedule functions over every minute of the day.                    *)
(***************************************************************************)
SchedInit ==
    /\ SupInit
    /\ GlobeIdleInit
    /\ FnIdleInit
    /\ now = HM(8, 0)
    /\ schedNow \in AllHM
    /\ schedPc = "ready"
    /\ schedManaged = FALSE
    /\ schedColor = None

SchedNext == EvalSchedule

SchedSpec == SchedInit /\ [][SchedNext]_vars

(***************************************************************************)
(* The worker.                                                             *)
(***************************************************************************)
GlobeSpecInit ==
    /\ SupInit
    /\ now = HM(8, 0)
    /\ SchedIdleInit
    /\ FnIdleInit
    /\ GlobeInit

GlobeNext ==
    \/ PowerPressed
    \/ GlobeModePressed
    \/ \E idx \in 0..3 : ColorPressed(idx)
    \/ ClockTick
    \/ WalkTick
    \/ DanceTick
    \/ GlobeTimePasses
    \/ \E req \in PostRequests : Post(req)

GlobeSpec == GlobeSpecInit /\ [][GlobeNext]_vars

\* the worker when every request it receives is well-formed
WellFormedNext ==
    \/ PowerPressed
    \/ GlobeModePressed
    \/ \E idx \in 0..3 : ColorPressed(idx)
    \/ ClockTick
    \/ WalkTick
    \/ DanceTick
    \/ GlobeTimePasses
    \/ \E req \in WellFormedRequests : Post(req)

WellFormedSpec == GlobeSpecInit /\ [][WellFormedNext]_vars

(***************************************************************************)
(* The walk loop on its own: WALK mode, power on, one _walk_loop task, a   *)
(* colour and a target, and no other event.                                *)
(***************************************************************************)
\* the colours a walk starts from and heads for
WalkColors ==
    { <<r, g, 0, w>> : r \in {0, 1, 2}, g \in {0, 1, 2}, w \in {253, 255} }

WalkInit ==
    /\ SupInit
    /\ now = HM(8, 0)
    /\ SchedIdleInit
    /\ fnArg \in { p \in [from : WalkColors, to : WalkColors] :
                       p.from # p.to }
    /\ fnPc = "idle"
    /\ fnRet = None
    /\ on = TRUE
    /\ wmode = "WALK"
    /\ color = fnArg.from
    /\ target = fnArg.to
    /\ lists \in {{}, {"target"}, {"color", "target"}}
    /\ wtime = HM(12, 0)
    /\ walkTasks = 1
    /\ danceTasks = 0
    /\ emit = FALSE
    /\ bumps = 0
    /\ steps = 0
    /\ gev = Event("init", 0, 0)
    /\ clockLoop = TRUE

WalkNext == WalkTick

\* nightlight_color read once, at any minute of the day
EvalNightlight ==
    /\ fnPc = "ready"
    /\ fnPc' = "done"
    /\ fnRet' = nightlight_color(wtime, color)
    /\ UNCHANGED <<fnArg, supVars, schedVars, globeVars>>

NightInit ==
    /\ SupInit
    /\ now = HM(8, 0)
    /\ SchedIdleInit
    /\ on = TRUE
    /\ wmode \in {"RGBW", "NIGHTLIGHT"}
    /\ color \in {<<0, 0, 0, 255>>, <<16, 0, 0, 255>>}
    /\ target = NoTarget
    /\ wtime \in AllHM
    /\ walkTasks = 0
    /\ danceTasks = 0
    /\ emit = FALSE
    /\ bumps = 0
    /\ steps = 0
    /\ gev = Event("init", 0, 0)
    /\ lists = {}
    /\ clockLoop = TRUE
    /\ fnArg = None
    /\ fnPc = "ready"
    /\ fnRet = NoColor

NightNext == EvalNightlight

(***************************************************************************)
(* The colour codec: hex_to_rgbw over strings of digits.                   *)
(***************************************************************************)
\* the digits the strings are made of
SomeDigits == {"0", "1", "a", "f"}

\* strings of n of these digits
DigitStrings(n) == [1..n -> SomeDigits]

\* the strings decoded: every 3- and 4-digit string, some of 6 and 8 digits,
\* some with a leading #, some of other lengths
HexInputs ==
    DigitStrings(3) \cup DigitStrings(4)
    \cup { <<a, a, b, b, c, c>> : a \in SomeDigits, b \in SomeDigits,
                                  c \in SomeDigits }
    \cup { <<a, b, "0", "1", "f", "a", c, c>> : a \in SomeDigits,
                                  b \in SomeDigits, c \in SomeDigits }
    \cup { <<"#">> \o x : x \in DigitStrings(3) }
    \cup DigitStrings(0) \cup DigitStrings(1) \cup DigitStrings(2)
    \cup { <<a, "0", "0", "0", b>> : a \in SomeDigits, b \in SomeDigits }

\* hex_to_rgbw(x) called
DecodeHex ==
    /\ fnPc = "ready"
    /\ fnPc' = "done"
    /\ fnRet' = hex_to_rgbw(fnArg)
    /\ UNCHANGED <<fnArg, supVars, schedVars, globeVars>>

HexInit ==
    /\ SupInit
    /\ now = HM(8, 0)
    /\ SchedIdleInit
    /\ GlobeIdleInit
    /\ fnArg \in HexInputs
    /\ fnPc = "ready"
    /\ fnRet = [raises |-> FALSE, value |-> NoColor]

HexNext == DecodeHex

(***************************************************************************)
(* The LED word: Pixels.rgbw_to_int and Pixels.int_to_rgbw.                *)
(*                                                                         *)
(* The word has 32 bits and its top byte may be 255, which a signed 32-bit *)
(* integer cannot hold: it is kept as its two 16-bit halves,               *)
(* hi = bits 16..31 and lo = bits 0..15.                                   *)
(***************************************************************************)
\* Gamma.R = Gamma.G = Gamma.B = Gamma.W: int(0.5 + 255 * (n / 255) ** 2.0),
\* which is floor((2 * n * n + 255) / 510)
Gamma == [n \in 0..255 |-> (2 * n * n + 255) \div 510]

\* (value >> shift) & 0xff, for shift = 24, 16, 8, 0
ByteAt(value, shift) ==
    CASE shift = 24 -> value.hi \div 256
      [] shift = 16 -> value.hi % 256
      [] shift = 8  -> value.lo \div 256
      [] shift = 0  -> value.lo % 256

\* a word with red and green in each other's place
rgbw_to_int_swapped(rgbw) ==
    [hi |-> Gamma[rgbw[4]] * 256 + Gamma[rgbw[1]],
     lo |-> Gamma[rgbw[2]] * 256 + Gamma[rgbw[3]]]

\* Pixels.rgbw_to_int: (G.W[w] << 24) | (G.G[g] << 16) | (G.R[r] << 8) | G.B[b]
rgbw_to_int(rgbw) ==
    [hi |-> Gamma[rgbw[4]] * 256 + Gamma[rgbw[2]],
     lo |-> Gamma[rgbw[1]] * 256 + Gamma[rgbw[3]]]

\* bisect.bisect(a, x), which is bisect_right, on a[0..255] from lo to hi
RECURSIVE bisect(_, _, _, _)
bisect(a, x, lo, hi) ==
    IF lo < hi
    THEN LET mid == (lo + hi) \div 2
         IN  IF x < a[mid] THEN bisect(a, x, lo, mid)
             ELSE bisect(a, x, mid + 1, hi)
    ELSE lo

\* Pixels.int_to_rgbw: r, g, b, w
int_to_rgbw(value) ==
    << bisect(Gamma, ByteAt(value, 8), 0, 256),
       bisect(Gamma, ByteAt(value, 16), 0, 256),
       bisect(Gamma, ByteAt(value, 0), 0, 256),
       bisect(Gamma, ByteAt(value, 24), 0, 256) >>

\* the colours packed: one channel takes every value, the others one of two
GammaInputs ==
    { [j \in 1..4 |-> IF j = k THEN c ELSE o] :
          k \in 1..4, c \in 0..255, o \in {0, 200} }

\* rgbw_to_int(rgbw) called
PackColor ==
    /\ fnPc = "ready"
    /\ fnPc' = "packed"
    /\ fnRet' = [value |-> rgbw_to_int(fnArg), rgbw |-> NoColor]
    /\ UNCHANGED <<fnArg, supVars, schedVars, globeVars>>

\* int_to_rgbw(value) called on the word
UnpackColor ==
    /\ fnPc = "packed"
    /\ fnPc' = "done"
    /\ fnRet' = [fnRet EXCEPT !.rgbw = int_to_rgbw(fnRet.value)]
    /\ UNCHANGED <<fnArg, supVars, schedVars, globeVars>>

GammaInit ==
    /\ SupInit
    /\ now = HM(8, 0)
    /\ SchedIdleInit
    /\ GlobeIdleInit
    /\ fnArg \in GammaInputs
    /\ fnPc = "ready"
    /\ fnRet = [value |-> [hi |-> 0, lo |-> 0], rgbw |-> NoColor]

GammaNext == PackColor \/ UnpackColor

GammaSpec == GammaInit /\ [][GammaNext]_vars

HexSpec == HexInit /\ [][HexNext]_vars

NightSpec == NightInit /\ [][NightNext]_vars

WalkSpec == WalkInit /\ [][WalkNext]_vars

(***************************************************************************)
(* Claims.                                                                 *)
(***************************************************************************)
MinuteOfDay(t) == 60 * t.h + t.m

\* C1: under every interleaving of schedule ticks and mode-button presses, at
\* most one worker process that was spawned and not terminated exists, and no
\* worker runs without being the handle the supervisor holds.
C1_AtMostOneWorker == Running <= 1 /\ leaked = 0

C3_AtMostTenAttempts ==
    /\ attempts <= 10
    /\ loopPc \in {"post", "backoff"} => attempts = i + 1 /\ ~delivered
    /\ delivered => loopPc = "sleep"
    /\ ev = "post_ok" => delivered /\ loopPc = "sleep"

C3_Witness == ev = "post_ok" /\ attempts = 10 /\ delivered /\ loopPc = "sleep"

\* C4: when all 10 posts of a set_color call fail, the call returns: mode and
\* worker handle are as they were, the loop() task is not dead but sleeping,
\* and it leads to a next tick, whose set_color call starts at attempt 1.
C4_FailureSwallowed ==
    /\ [][ev' \in {"post_failed", "backoff_done"} =>
            /\ mode' = mode
            /\ proc' = proc
            /\ leaked' = leaked
            /\ pending' = pending
            /\ loopPc' # "dead"]_vars
    /\ [][(ev' = "backoff_done" /\ attempts = 10) =>
            /\ loopPc' = "sleep"
            /\ attempts' = 10
            /\ ~delivered']_vars
    /\ [][(ev' \in {"tick", "loop_spawned"} /\ loopPc' = "post") =>
            attempts' = 1 /\ i' = 0]_vars
    /\ ((ev = "backoff_done" /\ loopPc = "sleep") ~> (ev = "tick"))

C4_Witness ==
    /\ ev = "backoff_done"
    /\ loopPc = "sleep"
    /\ attempts = 10
    /\ ~delivered
    /\ mode = "MANAGED"
    /\ proc = [m |-> "MANAGED", alive |-> TRUE]

C6_HalfOpenWindow ==
    schedPc = "done" =>
        (schedManaged = FALSE <=>
            (420 <= MinuteOfDay(schedNow) /\ MinuteOfDay(schedNow) < 1140))

\* C6: is_managed is false exactly at the minutes strictly between 07:00 and
\* 19:00 and true at every other minute: 08:00 -> false, 20:00 -> true,
\* 06:59 -> true, and both 07:00 and 19:00 are managed.
C6_OpenWindow ==
    schedPc = "done" =>
        /\ schedManaged = FALSE <=>
              (420 < MinuteOfDay(schedNow) /\ MinuteOfDay(schedNow) < 1140)
        /\ schedNow = HM(8, 0) => schedManaged = FALSE
        /\ schedNow = HM(20, 0) => schedManaged = TRUE
        /\ schedNow = HM(6, 59) => schedManaged = TRUE
        /\ schedNow = HM(7, 0) => schedManaged = TRUE
        /\ schedNow = HM(19, 0) => schedManaged = TRUE

C6_Witness == schedPc = "done" /\ schedNow = HM(7, 0) /\ schedManaged

\* C7: at every managed minute the colour picked is that of the breakpoint
\* with the least forward distance (now - breakpoint) mod 1440, so some
\* breakpoint's colour is always picked.
C7_ForwardNearest ==
    (schedPc = "done" /\ schedManaged) =>
        \E k \in 1..Len(managed_colors) :
            /\ schedColor = managed_colors[k].c
            /\ \A j \in 1..Len(managed_colors) :
                  (MinuteOfDay(schedNow) - MinuteOfDay(managed_colors[k].hm)) % 1440
                    <= (MinuteOfDay(schedNow) - MinuteOfDay(managed_colors[j].hm)) % 1440

\* C8: a worker mode-button press takes effect only with power on and not at
\* night: the mode becomes the next of RGBW, WALK, DANCE, NIGHTLIGHT (wrapping
\* to RGBW), the target is cleared, power and colour stay; four presses visit
\* the 4 modes and return.  With power off or at night nothing changes.
C8_ModeAdvance ==
    /\ \A m \in GlobeModes :
          /\ advance_mode(advance_mode(advance_mode(advance_mode(m)))) = m
          /\ {m, advance_mode(m), advance_mode(advance_mode(m)),
              advance_mode(advance_mode(advance_mode(m)))} = GlobeModes
    /\ [][GlobeModePressed =>
            IF on /\ 7 <= wtime.h /\ wtime.h <= 18
            THEN /\ wmode' = CASE wmode = "RGBW"       -> "WALK"
                               [] wmode = "WALK"       -> "DANCE"
                               [] wmode = "DANCE"      -> "NIGHTLIGHT"
                               [] wmode = "NIGHTLIGHT" -> "RGBW"
                 /\ target' = NoTarget
                 /\ on' = on
                 /\ color' = color
            ELSE UNCHANGED <<on, wmode, color, target>>]_vars

C8_Witness ==
    /\ gev = Event("mode", 0, 3)
    /\ wmode = "RGBW"
    /\ on
    /\ target = NoTarget
    /\ walkTasks = 1
    /\ danceTasks = 1

\* C9: a worker clock tick at night (hour below 7 or above 18) leaves the mode
\* NIGHTLIGHT whatever it was and whether power is on; a tick by day leaves the
\* mode alone; and while it stays night no step takes the mode off NIGHTLIGHT.
C9_NightLock ==
    /\ [][ClockTick =>
            IF wtime.h < 7 \/ wtime.h > 18
            THEN wmode' = "NIGHTLIGHT"
            ELSE wmode' = wmode]_vars
    /\ [][(/\ wmode = "NIGHTLIGHT"
           /\ (wtime.h < 7 \/ wtime.h > 18)
           /\ (wtime'.h < 7 \/ wtime'.h > 18)) => wmode' = "NIGHTLIGHT"]_vars

C9_Witness ==
    /\ gev = Event("clock", 0, 1)
    /\ wmode = "NIGHTLIGHT"
    /\ ~on
    /\ wtime.h > 18

\* C10: a channel-button press on channel idx with power on in RGBW mode,
\* while the colour holds a value, sets that channel to the next multiple of
\* 16 above it, 0 from 240..255, and leaves the other channels, mode, power
\* and target; otherwise it changes nothing.
C10_ChannelBump ==
    /\ \A v \in 0..255 :
          increment(v) = IF v >= 240 THEN 0 ELSE 16 * ((v \div 16) + 1)
    /\ increment(250) = 0
    /\ [][\A idx \in 0..3 : ColorPressed(idx) =>
            IF on /\ wmode = "RGBW" /\ color # NoColor
            THEN /\ color' = [color EXCEPT ![idx + 1] =
                                IF @ >= 240 THEN 0 ELSE 16 * ((@ \div 16) + 1)]
                 /\ UNCHANGED <<on, wmode, target>>
            ELSE UNCHANGED <<on, wmode, color, target>>]_vars

C10_Witness ==
    /\ gev = Event("color", 3, 253)
    /\ color[4] = 0
    /\ color[1] # 0
    /\ wmode = "RGBW"

\* the four fields the power button may touch
LightState == [on |-> on, wmode |-> wmode, color |-> color, target |-> target]

\* C11: a power-button press flips the power flag and leaves mode, colour and
\* target as they were, in every mode, by day and by night; a second press
\* straight after the first brings back the power flag the first one found,
\* so the pair restores the four fields.
C11_PowerToggle ==
    /\ [][PowerPressed =>
            LightState' = [LightState EXCEPT !.on = ~on]]_vars
    /\ [][(PowerPressed /\ gev.op = "power") => on' = (gev.old = 1)]_vars

C11_Witness ==
    /\ gev = Event("power", 0, 0)
    /\ on
    /\ wmode = "NIGHTLIGHT"
    /\ is_night(wtime)
    /\ target # NoTarget
    /\ color # <<0, 0, 0, 255>>

Abs(x) == IF x < 0 THEN 0 - x ELSE x

\* max(|A.r-B.r|, |A.g-B.g|, |A.b-B.b|, |A.w-B.w|)
Distance(A, B) ==
    CHOOSE d \in {Abs(A[j] - B[j]) : j \in 1..4} :
        \A j \in 1..4 : Abs(A[j] - B[j]) <= d

\* the value n steps of 1 from a toward b, stopping at b
Toward(a, b, n) ==
    IF Abs(a - b) <= n THEN b
    ELSE IF a < b THEN a + n
    ELSE a - n

\* C12: walking from colour A to target B with no other event, after n ticks,
\* n up to max(|A.r-B.r|, |A.g-B.g|, |A.b-B.b|, |A.w-B.w|), every channel is
\* n steps of 1 nearer its target or at it and the target is still B, so the
\* colour is B first after exactly that many ticks; each tick moves every
\* channel not at its target by exactly 1 toward it, leaves the others, and
\* no channel passes its target.
C12_WalkReachesTarget ==
    /\ [](steps <= Distance(fnArg.from, fnArg.to) =>
            /\ target = fnArg.to
            /\ \A j \in 1..4 :
                  color[j] = Toward(fnArg.from[j], fnArg.to[j], steps)
            /\ (color = fnArg.to) <=>
                  (steps = Distance(fnArg.from, fnArg.to)))
    /\ [][(WalkTick /\ steps < Distance(fnArg.from, fnArg.to)) =>
            \A j \in 1..4 :
               /\ color[j] < target[j] =>
                     color'[j] = color[j] + 1 /\ color'[j] <= target[j]
               /\ color[j] > target[j] =>
                     color'[j] = color[j] - 1 /\ color'[j] >= target[j]
               /\ color[j] = target[j] => color'[j] = color[j]]_vars

C12_Witness ==
    /\ fnArg = [from |-> <<0, 1, 0, 255>>, to |-> <<2, 1, 0, 253>>]
    /\ steps = 2
    /\ color = <<2, 1, 0, 253>>
    /\ target = <<2, 1, 0, 253>>
    /\ gev = Event("walk", 0, 0)

\* C13: nightlight_color returns the dusk tint (60,40,20,0) at 19:00..19:30,
\* the dawn tint (20,60,40,0) at 06:55..06:59, the dim default (40,20,0,0) at
\* every other time of the night (hour below 7 or above 18), and the current
\* colour by day.
C13_NightlightTints ==
    fnPc = "done" =>
        fnRet = IF wtime.h = 19 /\ wtime.m <= 30 THEN <<60, 40, 20, 0>>
                ELSE IF wtime.h = 6 /\ wtime.m >= 55 THEN <<20, 60, 40, 0>>
                ELSE IF wtime.h < 7 \/ wtime.h > 18 THEN <<40, 20, 0, 0>>
                ELSE color

\* C14: a request whose colour string is malformed (a wrong length, or a
\* character that is no hex digit) gets no value from the decoder and leaves
\* power, mode, colour and target exactly as they were.
C14_MalformedIgnored ==
    [][\A req \in PostRequests :
          (Post(req) /\ req.color.given /\ ~WellFormed(req.color.s)) =>
              /\ hex_to_rgbw(req.color.s).value = NoColor
              /\ LightState' = LightState]_vars

\* every digit of x written twice
Doubled(x) == [k \in 1..(2 * Len(x)) |-> x[(k + 1) \div 2]]

\* C15: the decoder accepts strings of 3, 4, 6 and 8 hex digits; the 3- and
\* 6-digit forms get a white channel of 0; a 4-digit string decodes to what
\* the 8-digit string with every digit doubled decodes to, and a 3-digit
\* string to what its doubled digits followed by 00 decode to.
C15_DigitDoubling ==
    (fnPc = "done" /\ WellFormed(fnArg)) =>
        LET x == IF fnArg[1] = "#" THEN Tail(fnArg) ELSE fnArg
        IN  /\ ~fnRet.raises
            /\ Len(fnRet.value) = 4
            /\ Len(x) \in {3, 6} => fnRet.value[4] = 0
            /\ Len(x) = 4 => fnRet.value = hex_to_rgbw(Doubled(x)).value
            /\ Len(x) = 3 =>
                  fnRet.value = hex_to_rgbw(Doubled(x) \o <<"0", "0">>).value

\* C16: for every channel value c, unpacking the packed word recovers an
\* index r in 0..255 that is the least index whose gamma-table value is at
\* least the packed byte: its table value equals corrected[c] and r <= c.
C16_UnpackWithinBucket ==
    fnPc = "done" =>
        \A j \in 1..4 :
            LET c == fnArg[j]
                r == fnRet.rgbw[j]
            IN  /\ r \in 0..255
                /\ r <= c
                /\ Gamma[r] = Gamma[c]
                /\ \A k \in 0..255 : Gamma[k] >= Gamma[c] => r <= k

\* the shift of the byte that carries channel j of (r, g, b, w)
ShiftOf(j) == CASE j = 1 -> 8 [] j = 2 -> 16 [] j = 3 -> 0 [] j = 4 -> 24

\* C17: the gamma table is non-decreasing with values in 0..255, running
\* from 0 to 255; the packed word carries corrected white in bits 24-31,
\* corrected green in bits 16-23, corrected red in bits 8-15 and corrected
\* blue in bits 0-7; raising one channel by one never lowers that channel's
\* byte and changes no other byte.
C17_PackMonotonic ==
    /\ \A n \in 0..254 : Gamma[n] <= Gamma[n + 1]
    /\ Gamma[0] = 0 /\ Gamma[255] = 255
    /\ fnPc \in {"packed", "done"} =>
          /\ fnRet.value.hi \div 256 = Gamma[fnArg[4]]
          /\ fnRet.value.hi % 256 = Gamma[fnArg[2]]
          /\ fnRet.value.lo \div 256 = Gamma[fnArg[1]]
          /\ fnRet.value.lo % 256 = Gamma[fnArg[3]]
          /\ \A j \in 1..4 :
                fnArg[j] < 255 =>
                    LET up == rgbw_to_int([fnArg EXCEPT ![j] = @ + 1])
                    IN  \A k \in 1..4 :
                          IF k = j
                          THEN ByteAt(up, ShiftOf(k))
                                  >= ByteAt(fnRet.value, ShiftOf(k))
                          ELSE ByteAt(up, ShiftOf(k))
                                  = ByteAt(fnRet.value, ShiftOf(k))

C17_Witness ==
    /\ fnPc = "packed"
    /\ fnArg = <<200, 0, 0, 0>>
    /\ fnRet.value = [hi |-> 0, lo |-> 157 * 256]

\* C18: a walk-loop tick that finds the mode is not WALK, or power off,
\* changes neither colour nor target, emits no frame and ends its task
\* without scheduling another; a dance-loop tick that finds the mode is not
\* DANCE, or power off, likewise.
C18_LoopSelfStops ==
    /\ [][(WalkTick /\ ~(on /\ wmode = "WALK")) =>
            /\ LightState' = LightState
            /\ ~emit'
            /\ walkTasks' = walkTasks - 1
            /\ danceTasks' = danceTasks]_vars
    /\ [][(DanceTick /\ ~(on /\ wmode = "DANCE")) =>
            /\ LightState' = LightState
            /\ ~emit'
            /\ danceTasks' = danceTasks - 1
            /\ walkTasks' = walkTasks]_vars

C18_Witness ==
    /\ gev = Event("dance_end", 0, 0)
    /\ wmode = "NIGHTLIGHT"
    /\ on
    /\ steps > 0
    /\ color \in RandomRGB
    /\ walkTasks = 0
    /\ danceTasks = 0

\* C19: whatever the presses, clock ticks and requests, at most one walk-loop
\* task and at most one dance-loop task is alive at any time.
C19_OneLoopPerKind == walkTasks <= 1 /\ danceTasks <= 1

IsRGBW(c) == Len(c) = 4 /\ \A j \in 1..4 : c[j] \in 0..255

\* C21: from the initial state (power on, mode RGBW, colour (0,0,0,255), no
\* target), after any presses, clock ticks, walk ticks, dance ticks and
\* well-formed requests, the colour has four channels in 0..255 and the
\* target is unset or has four channels in 0..255.
C21_ColourInRange ==
    /\ IsRGBW(color)
    /\ target = NoTarget \/ IsRGBW(target)

C21_Witness ==
    /\ gev = Event("walk", 0, 0)
    /\ color = <<254, 0, 253, 0>>
    /\ target = <<1, 0, 2, 0>>
    /\ bumps = 1
    /\ steps = 1
    /\ wmode = "WALK"

====
